---- MODULE Spec2Model ----
(***************************************************************************)
(* git-repo-manager.py: the GitHub repository sync script.                 *)
(*                                                                         *)
(* Texts (command output, operator answers) are finite sequences of        *)
(* lexemes; " " and "\n" are the whitespace lexemes.  A path is a record   *)
(* [abs, parts].  External commands are the environment: their exit codes  *)
(* and outputs are chosen nondeterministically when the command is run.    *)
(***************************************************************************)
EXTENDS Integers, Sequences, FiniteSets, TLC

VARIABLES env, pc, pkgIdx, installs, loginStatus, ssh, username,
          listing, repos, idx, cwd, cmds, cur, printed, exitStatus

vars == <<env, pc, pkgIdx, installs, loginStatus, ssh, username,
          listing, repos, idx, cwd, cmds, cur, printed, exitStatus>>

-----------------------------------------------------------------------------
(* Bounds of the model *)

\* longest repository listing returned by gh repo list
MaxRepos == 2
\* longest captured stdout / stderr of the SSH probe
MaxSshOut == 1
MaxSshErr == 3

-----------------------------------------------------------------------------
(* Python string operations on texts *)

Whitespace == {" ", "\n"}

RECURSIVE lstrip(_)
lstrip(s) == IF s # <<>> /\ Head(s) \in Whitespace THEN lstrip(Tail(s)) ELSE s

RECURSIVE rstrip(_)
rstrip(s) ==
    IF s # <<>> /\ s[Len(s)] \in Whitespace
    THEN rstrip(SubSeq(s, 1, Len(s) - 1))
    ELSE s

\* str.strip()
strip(s) == rstrip(lstrip(s))

\* str.lower()
lower(s) ==
    [i \in 1..Len(s) |->
        CASE s[i] = "Y" -> "y"
          [] s[i] = "N" -> "n"
          [] OTHER -> s[i]]

\* needle in hay
contains(needle, hay) ==
    \E i \in 0..(Len(hay) - Len(needle)) :
        SubSeq(hay, i + 1, i + Len(needle)) = needle

\* str.startswith(prefix)
startswith(s, prefix) ==
    Len(s) >= Len(prefix) /\ SubSeq(s, 1, Len(prefix)) = prefix

\* str.split(sep) for a one-lexeme separator
RECURSIVE split(_, _)
split(s, sep) ==
    IF \A i \in 1..Len(s) : s[i] # sep
    THEN <<s>>
    ELSE LET k == CHOOSE i \in 1..Len(s) :
                      s[i] = sep /\ \A j \in 1..(i - 1) : s[j] # sep
         IN  <<SubSeq(s, 1, k - 1)>> \o split(SubSeq(s, k + 1, Len(s)), sep)

\* str.split() with no argument: runs of whitespace separate, no empty words
RECURSIVE split_ws(_)
split_ws(s) ==
    LET t == lstrip(s) IN
    IF t = <<>>
    THEN <<>>
    ELSE LET stops == {i \in 1..Len(t) : t[i] \in Whitespace}
             k == IF stops = {} THEN Len(t) + 1
                  ELSE CHOOSE i \in stops : \A j \in stops : i <= j
         IN  <<SubSeq(t, 1, k - 1)>> \o split_ws(SubSeq(t, k, Len(t)))

\* os.path.join(base, name) for a relative one-component name
os_path_join(base, name) == [abs |-> base.abs, parts |-> Append(base.parts, name)]

\* os.chdir(path): the new working directory
chdir(dir, path) ==
    IF path.abs THEN path ELSE [abs |-> dir.abs, parts |-> dir.parts \o path.parts]

\* console output: one record per print call
Msg(tag, text) == [msg |-> tag, text |-> text]

ExitCodes == {0, 1}

-----------------------------------------------------------------------------
(* run_command *)

\* Python's None and a captured string, as returned by run_command
None == [isNone |-> TRUE, text |-> <<>>]
Str(t) == [isNone |-> FALSE, text |-> t]
Truthy(v) == ~v.isNone /\ v.text # <<>>

\* run_command(cmd, check, capture_output) when cmd ends with exit code rc and
\* standard output stdout: exits the process (status 1) only when check is set
\* and rc is non-zero; returns the stripped stdout only when capturing.
\* faulty variant: a failed checked command does not exit
run_command_ignores_check(check, capture_output, rc, stdout) ==
    [exits |-> FALSE,
     value |-> IF capture_output THEN Str(strip(stdout)) ELSE None]

run_command(check, capture_output, rc, stdout) ==
    [exits |-> check /\ rc # 0,
     value |-> IF capture_output THEN Str(strip(stdout)) ELSE None]

-----------------------------------------------------------------------------
(* detect_os, install_package, ensure_dependencies *)

Platforms ==
    {<<"linux">>, <<"linux", "2">>, <<"darwin">>, <<"win32">>, <<"cygwin">>,
     <<"freebsd", "14">>}

PackageManagers == {"/usr/bin/apt", "/usr/bin/dnf", "/usr/bin/yum"}

Packages == <<"git", "gh">>

Categories ==
    {"linux-apt", "linux-dnf", "linux-yum", "linux-unknown", "macos", "windows",
     "unknown"}

detect_os(platform, bins) ==
    IF startswith(platform, <<"linux">>)
    THEN IF "/usr/bin/apt" \in bins THEN "linux-apt"
         ELSE IF "/usr/bin/dnf" \in bins THEN "linux-dnf"
         ELSE IF "/usr/bin/yum" \in bins THEN "linux-yum"
         ELSE "linux-unknown"
    ELSE IF platform = <<"darwin">> THEN "macos"
    ELSE IF platform \in {<<"win32">>, <<"cygwin">>} THEN "windows"
    ELSE "unknown"

\* one install command: the template (named by its tool) run for a package
Install(package, tool, rc) == [package |-> package, tool |-> tool, rc |-> rc]

\* a or b on two run_command calls: b is evaluated only when a's value is falsy
WindowsInstall(package, rc1, rc2) ==
    LET first == run_command(FALSE, FALSE, rc1, <<>>) IN
    IF Truthy(first.value)
    THEN <<Install(package, "winget", rc1)>>
    ELSE <<Install(package, "winget", rc1), Install(package, "choco", rc2)>>

\* install_package(package) on os_type: the install commands issued, and
\* whether the process exits with status 1.
\* faulty variant: the yum branch is missing
install_package_no_yum(os_type, package, rc1, rc2) ==
    CASE os_type = "linux-apt" ->
            [issued |-> <<Install(package, "apt", rc1)>>, exits |-> FALSE]
      [] os_type = "linux-dnf" ->
            [issued |-> <<Install(package, "dnf", rc1)>>, exits |-> FALSE]
      [] os_type = "macos" ->
            [issued |-> <<Install(package, "brew", rc1)>>, exits |-> FALSE]
      [] os_type = "windows" ->
            [issued |-> IF package \in {"git", "gh"}
                        THEN WindowsInstall(package, rc1, rc2) ELSE <<>>,
             exits |-> FALSE]
      [] OTHER -> [issued |-> <<>>, exits |-> TRUE]

install_package(os_type, package, rc1, rc2) ==
    CASE os_type = "linux-apt" ->
            [issued |-> <<Install(package, "apt", rc1)>>, exits |-> FALSE]
      [] os_type = "linux-dnf" ->
            [issued |-> <<Install(package, "dnf", rc1)>>, exits |-> FALSE]
      [] os_type = "linux-yum" ->
            [issued |-> <<Install(package, "yum", rc1)>>, exits |-> FALSE]
      [] os_type = "macos" ->
            [issued |-> <<Install(package, "brew", rc1)>>, exits |-> FALSE]
      [] os_type = "windows" ->
            [issued |-> IF package \in {"git", "gh"}
                        THEN WindowsInstall(package, rc1, rc2) ELSE <<>>,
             exits |-> FALSE]
      [] OTHER -> [issued |-> <<>>, exits |-> TRUE]

\* One iteration of ensure_dependencies' loop over ["git", "gh"]: `which`
\* finds the package, or install_package runs.  After the second package
\* main goes on to authenticate_github.
EnsureDependency ==
    /\ pc = "ensure_dependencies"
    /\ LET package == Packages[pkgIdx]
           after == IF pkgIdx = Len(Packages)
                    THEN "authenticate_github" ELSE "ensure_dependencies"
       IN
       IF package \in env.present
       THEN /\ printed' = Append(printed, Msg("already installed", <<package>>))
            /\ pc' = after
            /\ pkgIdx' = pkgIdx + 1
            /\ UNCHANGED <<installs, exitStatus>>
       ELSE \E rc1 \in ExitCodes, rc2 \in ExitCodes :
              LET os_type == detect_os(env.platform, env.bins)
                  r == install_package(os_type, package, rc1, rc2)
              IN
              /\ installs' = installs \o r.issued
              /\ IF r.exits
                 THEN /\ printed' = printed \o
                            <<Msg("Installing", <<package>>),
                              Msg("Unsupported OS", <<os_type>>)>>
                      /\ pc' = "exit"
                      /\ exitStatus' = <<1>>
                      /\ pkgIdx' = pkgIdx
                 ELSE /\ printed' = Append(printed, Msg("Installing", <<package>>))
                      /\ pc' = after
                      /\ pkgIdx' = pkgIdx + 1
                      /\ exitStatus' = exitStatus
    /\ UNCHANGED <<env, loginStatus, ssh, username, listing, repos, idx, cwd,
                   cmds, cur>>

-----------------------------------------------------------------------------
(* authenticate_github, check_ssh_access, get_github_user *)

\* an external command as it appears in the run's history: the position of
\* the repository it was issued for (0: none) and the command
Cmd(pos, cmd) == <<pos, cmd>>

\* gh auth status, and gh auth login (unchecked, not re-verified) when the
\* status check fails
AuthenticateGithub ==
    /\ pc = "authenticate_github"
    /\ \E rc \in ExitCodes, rcLogin \in ExitCodes :
          IF rc # 0
          THEN LET r == run_command(FALSE, FALSE, rcLogin, <<>>) IN
               /\ loginStatus' = "failed"
               /\ cmds' = cmds \o <<Cmd(0, "gh auth status"), Cmd(0, "gh auth login")>>
               /\ printed' = Append(printed, Msg("authentication required", <<>>))
               /\ IF r.exits
                  THEN pc' = "exit" /\ exitStatus' = <<1>>
                  ELSE pc' = "check_ssh_access" /\ exitStatus' = exitStatus
          ELSE /\ loginStatus' = "ok"
               /\ cmds' = Append(cmds, Cmd(0, "gh auth status"))
               /\ printed' = Append(printed, Msg("authentication is already set up", <<>>))
               /\ pc' = "check_ssh_access"
               /\ exitStatus' = exitStatus
    /\ UNCHANGED <<env, pkgIdx, installs, ssh, username, listing, repos, idx,
                   cwd, cur>>

SSH_AUTHENTICATED == <<"successfully", " ", "authenticated">>
SSH_NO_SHELL == <<"does not provide", " ", "shell access">>

\* check_ssh_access on the probe's captured stdout and stderr: the text it
\* inspects (and prints on failure) and whether the check passes
\* faulty variant: only the first marker is accepted
check_ssh_access_one_marker(stdout, stderr) ==
    LET ssh_output == strip(stdout \o stderr) IN
    [ssh_output |-> ssh_output,
     passes |-> contains(SSH_AUTHENTICATED, ssh_output)]

\* faulty variant: a failed probe does not stop the run
check_ssh_access_never_exits(stdout, stderr) ==
    LET ssh_output == strip(stdout \o stderr) IN
    [ssh_output |-> ssh_output, passes |-> TRUE]

check_ssh_access(stdout, stderr) ==
    LET ssh_output == strip(stdout \o stderr) IN
    [ssh_output |-> ssh_output,
     passes |-> \/ contains(SSH_AUTHENTICATED, ssh_output)
                \/ contains(SSH_NO_SHELL, ssh_output)]

\* the check_ssh_access step of main, the probe's output drawn from captures
CheckSshAccess(captures) ==
    /\ pc = "check_ssh_access"
    /\ \E c \in captures :
          LET r == check_ssh_access(c.stdout, c.stderr) IN
          /\ ssh' = [ran |-> TRUE, stdout |-> c.stdout, stderr |-> c.stderr]
          /\ cmds' = Append(cmds, Cmd(0, "ssh -T"))
          /\ IF r.passes
             THEN /\ printed' = printed \o
                        <<Msg("Checking SSH access", <<>>),
                          Msg("SSH authentication is working", <<>>)>>
                  /\ pc' = "get_github_user"
                  /\ exitStatus' = exitStatus
             ELSE /\ printed' = printed \o
                        <<Msg("Checking SSH access", <<>>),
                          Msg("SSH authentication failed", r.ssh_output)>>
                  /\ pc' = "exit"
                  /\ exitStatus' = <<1>>
    /\ UNCHANGED <<env, pkgIdx, installs, loginStatus, username, listing, repos,
                   idx, cwd, cur>>

\* gh api user --jq .login, captured; an empty answer falls back to input()
GetGithubUser ==
    /\ pc = "get_github_user"
    /\ \E rc \in ExitCodes,
          stdout \in {<<"octocat", "\n">>, <<>>},
          typed \in {<<"octocat">>, <<" ", "octocat", " ">>} :
          LET r == run_command(FALSE, TRUE, rc, stdout) IN
          /\ cmds' = Append(cmds, Cmd(0, "gh api user"))
          /\ IF r.exits
             THEN /\ pc' = "exit" /\ exitStatus' = <<1>>
                  /\ UNCHANGED <<username, printed>>
             ELSE /\ username' = IF Truthy(r.value) THEN r.value.text ELSE strip(typed)
                  /\ printed' = Append(printed, Msg("Logged in as", username'))
                  /\ pc' = "fetch_repos"
                  /\ exitStatus' = exitStatus
    /\ UNCHANGED <<env, pkgIdx, installs, loginStatus, ssh, listing, repos, idx,
                   cwd, cur>>

-----------------------------------------------------------------------------
(* fetch_repos and main's branch on its result *)

Names == {<<"dotfiles">>, <<"new-repo">>, <<"notes">>}

UrlOf(name) == <<"git@github.com:octocat/">> \o name \o <<".git">>

\* the repository lists GitHub can return: distinct names, at most MaxRepos
RepoLists ==
    UNION {{rs \in [1..n -> Names] : \A i, j \in 1..n : rs[i] = rs[j] => i = j} :
           n \in 0..MaxRepos}

\* what gh repo list --jq '.[] | "\(.name) \(.url)"' writes for a list
RECURSIVE FormatListing(_)
FormatListing(rs) ==
    IF rs = <<>>
    THEN <<>>
    ELSE Head(rs) \o <<" ">> \o UrlOf(Head(rs)) \o <<"\n">> \o FormatListing(Tail(rs))

\* fetch_repos: the listing command's captured output parsed into records
\* faulty variant: the listing is parsed without stripping it
fetch_repos_unstripped(rc, stdout) ==
    LET r == run_command(FALSE, TRUE, rc, stdout)
        lines == split(stdout, "\n")
    IN  [exits |-> r.exits,
         none |-> stdout = <<>>,
         repos |-> IF stdout = <<>> THEN <<>>
                   ELSE [i \in 1..Len(lines) |-> split_ws(strip(lines[i]))]]

fetch_repos(rc, stdout) ==
    LET r == run_command(FALSE, TRUE, rc, stdout)
        repo_data == r.value.text
        lines == split(repo_data, "\n")
    IN  [exits |-> r.exits,
         none |-> ~Truthy(r.value),
         repos |-> IF ~Truthy(r.value) THEN <<>>
                   ELSE [i \in 1..Len(lines) |-> split_ws(strip(lines[i]))]]

FetchRepos ==
    /\ pc = "fetch_repos"
    /\ \E rc \in ExitCodes, rs \in RepoLists :
          LET stdout == FormatListing(rs)
              r == fetch_repos(rc, stdout)
          IN
          /\ listing' = stdout
          /\ cmds' = Append(cmds, Cmd(0, "gh repo list"))
          /\ IF r.exits
             THEN /\ pc' = "exit" /\ exitStatus' = <<1>>
                  /\ UNCHANGED <<repos, printed>>
             ELSE /\ repos' = r.repos
                  /\ printed' = printed \o
                        <<Msg("Fetching repository list", username)>> \o
                        (IF r.none
                         THEN <<Msg("No repositories found or API call failed", <<>>)>>
                         ELSE <<>>)
                  /\ pc' = "main"
                  /\ exitStatus' = exitStatus
    /\ UNCHANGED <<env, pkgIdx, installs, loginStatus, ssh, username, idx, cwd, cur>>

\* main, else branch of `if repos`: nothing to sync, the script ends normally
NoRepositories ==
    /\ pc = "main"
    /\ repos = <<>>
    /\ printed' = Append(printed, Msg("No repositories found. Exiting", <<>>))
    /\ pc' = "exit"
    /\ exitStatus' = <<0>>
    /\ UNCHANGED <<env, pkgIdx, installs, loginStatus, ssh, username, listing,
                   repos, idx, cwd, cmds, cur>>

-----------------------------------------------------------------------------
(* clone_or_update_repos *)

CLONE_DIR == [abs |-> TRUE, parts |-> << <<"home">>, <<"git">> >>]

\* the directory the script is started in
StartDir == [abs |-> TRUE, parts |-> << <<"work">> >>]

\* what the file system holds at <CLONE_DIR>/<name> when the loop reaches the
\* repository: nothing, a directory without .git, or a clone.  A listing
\* names a repository once, so each path is examined once per run.
FsStates == {"absent", "dir", "clone"}

\* git status --porcelain, git rev-parse --abbrev-ref HEAD, and the operator
StatusOutputs == {<<>>, <<" ", "M", " ", "README.md", "\n">>}
BranchOutputs == {<<"main", "\n">>, <<"hotfix/", "fatal", "-error", "\n">>}
Answers == {<<"y">>, <<" ", "Y", " ">>, <<"n">>, <<"y", "e", "s">>}

\* a git command as run for the current repository
Git(cmd, dir, args, check, rc) ==
    [cmd |-> cmd, cwd |-> dir, args |-> args, check |-> check, rc |-> rc]

\* faulty variant: the path is relative to the working directory
repo_path_relative(repo_name) == [abs |-> FALSE, parts |-> <<repo_name>>]

repo_path(repo_name) == os_path_join(CLONE_DIR, repo_name)

\* run_command(f"git clone {repo_url} {repo_path}"): no check
\* faulty variant: the clone's exit code is checked
git_clone_checked(dir, repo_url, path, rc) ==
    Git("clone", dir, <<repo_url, path>>, TRUE, rc)

git_clone(dir, repo_url, path, rc) ==
    Git("clone", dir, <<repo_url, path>>, FALSE, rc)

\* exists(repo_path) and isdir(repo_path) and exists(repo_path/.git)
is_existing_clone(found) == found = "clone"

\* `if changes:` on the stripped status output
\* faulty variant: the prompt does not depend on the status output
has_changes_always(changes) == TRUE

has_changes(changes) == changes # <<>>

\* input(...).strip().lower() == "y"
\* faulty variant: the answer is compared as typed
confirmed_exact(answer) == answer = <<"y">>

confirmed(answer) == lower(strip(answer)) = <<"y">>

\* `if "fatal" not in current_branch:`
should_pull(current_branch) == ~contains(<<"fatal">>, current_branch)

\* the three commands of a confirmed commit
commit_and_push(repo_name, dir, rcAdd, rcCommit, rcPush) ==
    <<Git("add", dir, <<".">>, FALSE, rcAdd),
      Git("commit", dir, <<"Auto-commit before pull: ">> \o repo_name, FALSE, rcCommit),
      Git("push", dir, <<"origin", "$(git rev-parse --abbrev-ref HEAD)">>, TRUE, rcPush)>>

\* the commands of a sequence up to and including the first one whose
\* run_command call exits the process
RECURSIVE UntilExit(_)
UntilExit(log) ==
    IF log = <<>> THEN <<>>
    ELSE IF run_command(Head(log).check, FALSE, Head(log).rc, <<>>).exits
         THEN <<Head(log)>>
         ELSE <<Head(log)>> \o UntilExit(Tail(log))

Exits(log) ==
    \E i \in 1..Len(log) : run_command(log[i].check, FALSE, log[i].rc, <<>>).exits

\* makedirs, chdir(CLONE_DIR), git config --global pull.ff only
BeginSync ==
    /\ pc = "main"
    /\ repos # <<>>
    /\ \E rc \in ExitCodes :
          LET r == run_command(FALSE, FALSE, rc, <<>>) IN
          /\ cwd' = chdir(cwd, CLONE_DIR)
          /\ printed' = Append(printed, Msg("Using clone directory", CLONE_DIR.parts))
          /\ cmds' = Append(cmds, Cmd(0, "git config"))
          /\ idx' = 1
          /\ IF r.exits
             THEN pc' = "exit" /\ exitStatus' = <<1>>
             ELSE pc' = "clone_or_update_repos" /\ exitStatus' = exitStatus
    /\ UNCHANGED <<env, pkgIdx, installs, loginStatus, ssh, username, listing,
                   repos, cur>>

\* loop body, existing clone: status, optional add/commit/push, branch, pull.
\* The operator's answer and a command's exit code or output are drawn only
\* when the prompt is shown and the command is run.  status and rev-parse are
\* captured: the script reads their stdout (drawn from StatusOutputs and
\* BranchOutputs) and never their exit code, recorded as 0.
UpdateExistingRepo ==
    /\ pc = "clone_or_update_repos"
    /\ idx <= Len(repos)
    /\ \E found \in FsStates, status \in StatusOutputs :
       /\ is_existing_clone(found)
       /\ LET repo_name == repos[idx][1]
              dir == chdir(cwd, repo_path(repo_name))
              changes == run_command(FALSE, TRUE, 0, status).value.text
              asked == has_changes(changes)
          IN
          \E answer \in IF asked THEN Answers ELSE {<<>>} :
          LET yes == asked /\ confirmed(answer) IN
          \E rcAdd \in IF yes THEN ExitCodes ELSE {0},
             rcCommit \in IF yes THEN ExitCodes ELSE {0},
             rcPush \in IF yes THEN ExitCodes ELSE {0} :
          LET commit == IF yes
                        THEN commit_and_push(repo_name, dir, rcAdd, rcCommit, rcPush)
                        ELSE <<>>
          IN
          \E current \in IF Exits(commit) THEN {<<>>} ELSE BranchOutputs :
          LET current_branch == run_command(FALSE, TRUE, 0, current).value.text
              pulls == ~Exits(commit) /\ should_pull(current_branch)
          IN
          \E rcPull \in IF pulls THEN ExitCodes ELSE {0} :
          LET plan == <<Git("status", dir, <<"--porcelain">>, FALSE, 0)>>
                      \o commit
                      \o <<Git("rev-parse", dir, <<"--abbrev-ref", "HEAD">>, FALSE, 0)>>
                      \o (IF pulls
                          THEN <<Git("pull", dir, <<"origin">> \o current_branch,
                                     TRUE, rcPull)>>
                          ELSE <<>>)
              log == UntilExit(plan)
              aborted == Exits(log)
          IN
          /\ cwd' = dir
          /\ cur' = [pos |-> idx, name |-> repo_name, url |-> repos[idx][2],
                     found |-> found, changes |-> changes,
                     branch |-> current_branch,
                     prompt |-> IF asked THEN <<answer>> ELSE <<>>,
                     log |-> log]
          /\ cmds' = cmds \o [i \in 1..Len(log) |-> Cmd(idx, log[i].cmd)]
          /\ printed' = printed \o <<Msg("Updating existing repo", repo_name)>> \o
                (IF asked
                 THEN <<Msg("Uncommitted changes detected", repo_name),
                        Msg("changes", changes)>>
                 ELSE <<>>) \o
                (IF aborted
                 THEN <<Msg("Command failed", <<log[Len(log)].cmd>>)>>
                 ELSE <<>>)
          /\ IF aborted
             THEN pc' = "exit" /\ exitStatus' = <<1>> /\ idx' = idx
             ELSE pc' = pc /\ exitStatus' = exitStatus /\ idx' = idx + 1
    /\ UNCHANGED <<env, pkgIdx, installs, loginStatus, ssh, username, listing,
                   repos>>

\* loop body, no clone at repo_path: git clone <url> <path>, unchecked
CloneNewRepo ==
    /\ pc = "clone_or_update_repos"
    /\ idx <= Len(repos)
    /\ LET repo_name == repos[idx][1]
           repo_url == repos[idx][2]
       IN
       \E found \in FsStates, rc \in ExitCodes :
             /\ ~is_existing_clone(found)
             /\ LET log == UntilExit(<<git_clone(cwd, repo_url, repo_path(repo_name), rc)>>)
                IN
                /\ cur' = [pos |-> idx, name |-> repo_name, url |-> repo_url,
                           found |-> found, changes |-> <<>>, branch |-> <<>>,
                           prompt |-> <<>>, log |-> log]
                /\ cmds' = cmds \o [i \in 1..Len(log) |-> Cmd(idx, log[i].cmd)]
                /\ printed' = Append(printed, Msg("Cloning new repository", repo_name))
                /\ IF Exits(log)
                   THEN pc' = "exit" /\ exitStatus' = <<1>> /\ idx' = idx
                   ELSE pc' = pc /\ exitStatus' = exitStatus /\ idx' = idx + 1
    /\ UNCHANGED <<env, pkgIdx, installs, loginStatus, ssh, username, listing, repos,
                   cwd>>

\* after the loop: the summary, and main returns
PrintSummary ==
    /\ pc = "clone_or_update_repos"
    /\ idx > Len(repos)
    /\ printed' = Append(printed, Msg("All repositories are synced!", <<>>))
    /\ pc' = "exit"
    /\ exitStatus' = <<0>>
    /\ UNCHANGED <<env, pkgIdx, installs, loginStatus, ssh, username, listing,
                   repos, idx, cwd, cmds, cur>>

-----------------------------------------------------------------------------
(* main: the environments the script is started in, and the specifications *)

\* every machine: platform identifier, package managers present, and which of
\* git and gh `which` finds
Environments ==
    [platform : Platforms, bins : SUBSET PackageManagers,
     present : SUBSET {"git", "gh"}]

\* the machines of the full-run specification: one with both tools installed,
\* one with no known installer for the missing gh
SyncEnvironments ==
    {[platform |-> <<"darwin">>, bins |-> {}, present |-> {"git", "gh"}],
     [platform |-> <<"freebsd", "14">>, bins |-> {}, present |-> {"git"}]}

\* the SSH probe's outputs: GitHub's greeting, and a rejected key
SshSamples ==
    {[stdout |-> <<>>,
      stderr |-> <<"Hi octocat! You've", " ", "successfully", " ", "authenticated",
                   ", but GitHub", " ", "does not provide", " ", "shell access",
                   ".", "\n">>],
     [stdout |-> <<>>,
      stderr |-> <<"git@github.com: Permission", " ", "denied", " ", "(publickey).",
                   "\n">>]}

SshLexemes ==
    {"successfully", "authenticated", "does not provide", "shell access", " ",
     "denied"}

TextsUpTo(n) == UNION {[1..k -> SshLexemes] : k \in 0..n}

\* every probe output within the bounds
SshCaptures == [stdout : TextsUpTo(MaxSshOut), stderr : TextsUpTo(MaxSshErr)]

NoRepo ==
    [pos |-> 0, name |-> <<>>, url |-> <<>>, found |-> "absent", changes |-> <<>>,
     branch |-> <<>>, prompt |-> <<>>, log |-> <<>>]

\* the state when main starts, after its first print
Start(envs) ==
    /\ env \in envs
    /\ pc = "ensure_dependencies"
    /\ pkgIdx = 1
    /\ installs = <<>>
    /\ loginStatus = "unchecked"
    /\ ssh = [ran |-> FALSE, stdout |-> <<>>, stderr |-> <<>>]
    /\ username = <<>>
    /\ listing = <<>>
    /\ repos = <<>>
    /\ idx = 0
    /\ cwd = StartDir
    /\ cmds = <<>>
    /\ cur = NoRepo
    /\ printed = <<Msg("Setting up Git & Syncing GitHub Repositories", <<>>)>>
    /\ exitStatus = <<>>

Init == Start(SyncEnvironments)

Next ==
    \/ EnsureDependency
    \/ AuthenticateGithub
    \/ CheckSshAccess(SshSamples)
    \/ GetGithubUser
    \/ FetchRepos
    \/ NoRepositories
    \/ BeginSync
    \/ UpdateExistingRepo
    \/ CloneNewRepo
    \/ PrintSummary

\* a full run of main
Spec == Init /\ [][Next]_vars

\* ensure_dependencies on every machine
InitInstall == Start(Environments)

NextInstall == EnsureDependency

SpecInstall == InitInstall /\ [][NextInstall]_vars

\* main up to check_ssh_access, on every probe output within the bounds
InitSsh ==
    Start({[platform |-> <<"darwin">>, bins |-> {}, present |-> {"git", "gh"}]})

NextSsh ==
    \/ EnsureDependency
    \/ AuthenticateGithub
    \/ CheckSshAccess(SshCaptures)

SpecSsh == InitSsh /\ [][NextSsh]_vars

-----------------------------------------------------------------------------
(* Properties *)

\* the names of the commands run for the current repository, in order
CurCmds == [i \in 1..Len(cur.log) |-> cur.log[i].cmd]

CurIssued(c) == \E i \in 1..Len(cur.log) : cur.log[i].cmd = c

RECURSIVE Only(_, _)
Only(seq, S) ==
    IF seq = <<>> THEN <<>>
    ELSE IF Head(seq) \in S THEN <<Head(seq)>> \o Only(Tail(seq), S)
    ELSE Only(Tail(seq), S)

SummaryPrinted ==
    \E i \in 1..Len(printed) : printed[i].msg = "All repositories are synced!"

\* the repository list GitHub returned in this run
Listed == CHOOSE rs \in RepoLists : FormatListing(rs) = listing

Fetched == \E k \in 1..Len(cmds) : cmds[k] = Cmd(0, "gh repo list")

\* <clone_dir>/<name>, absolute
ClonePathOf(name) == [abs |-> TRUE, parts |-> << <<"home">>, <<"git">>, name >>]

RepoCommands == {"clone", "status", "add", "commit", "push", "rev-parse", "pull"}

\* C1: when the checked push or the checked pull of the repository at
\* position i returns non-zero, the process has exited with status 1, that
\* command is the last one the run issued (nothing for i after it, nothing for
\* any later position), and the summary is not printed.
C1_HardFailureAborts ==
    \A i \in 1..Len(cur.log) :
        (cur.log[i].cmd \in {"push", "pull"} /\ cur.log[i].rc # 0) =>
            /\ cur.log[i].check
            /\ pc = "exit"
            /\ exitStatus = <<1>>
            /\ i = Len(cur.log)
            /\ cmds[Len(cmds)] = Cmd(cur.pos, cur.log[i].cmd)
            /\ \A k \in 1..Len(cmds) : cmds[k][1] <= cur.pos
            /\ ~SummaryPrinted

\* a push fails for a repository that is not the last of the list
C1_Witness ==
    /\ cur.pos >= 1
    /\ cur.pos < Len(repos)
    /\ CurCmds = <<"status", "add", "commit", "push">>
    /\ cur.log[4].rc # 0
    /\ pc = "exit"

\* C2: for a listed repository whose directory does not exist, exactly one
\* command is issued: an unchecked clone of the recorded URL into
\* <clone_dir>/<name>; the operator is not prompted; and whatever the clone's
\* exit code the run does not abort: the loop goes on to the next position,
\* or, after the last one, the summary is printed and the exit status is 0.
C2_MissingRepoClonedOnce ==
    (cur.pos >= 1 /\ cur.found = "absent") =>
        /\ Len(cur.log) = 1
        /\ cur.log[1].cmd = "clone"
        /\ cur.log[1].args = <<UrlOf(Listed[cur.pos]), ClonePathOf(Listed[cur.pos])>>
        /\ ~cur.log[1].check
        /\ cur.prompt = <<>>
        /\ Only(cmds, {Cmd(cur.pos, c) : c \in RepoCommands}) = <<Cmd(cur.pos, "clone")>>
        /\ exitStatus # <<1>>
        /\ \/ pc = "clone_or_update_repos" /\ idx = cur.pos + 1
           \/ /\ pc = "exit" /\ exitStatus = <<0>> /\ SummaryPrinted
              /\ cur.pos = Len(Listed)

\* the last of several repositories is missing, its clone fails, and the run
\* still ends with the summary
C2_Witness ==
    /\ cur.pos >= 2
    /\ cur.found = "absent"
    /\ cur.log[1].rc # 0
    /\ SummaryPrinted
    /\ exitStatus = <<0>>

\* C3: for an existing clone with a clean working tree the operator is never
\* prompted and no add, commit, push or clone is issued: the commands run for
\* it are the status check, the branch resolution and the pull.
C3_CleanCloneOnlyPulls ==
    (cur.pos >= 1 /\ cur.found = "clone" /\ cur.changes = <<>>) =>
        /\ cur.prompt = <<>>
        /\ \A c \in {"add", "commit", "push", "clone"} :
              ~CurIssued(c) /\ \A k \in 1..Len(cmds) : cmds[k] # Cmd(cur.pos, c)
        /\ \A i \in 1..Len(cur.log) : cur.log[i].cmd \in {"status", "rev-parse", "pull"}

C3_Witness ==
    /\ cur.pos >= 1
    /\ cur.found = "clone"
    /\ cur.changes = <<>>
    /\ CurCmds = <<"status", "rev-parse", "pull">>

\* the operator answered 'y': one y or Y, with nothing but whitespace around it
AnsweredYes(answer) ==
    \E i \in 1..Len(answer) :
        /\ answer[i] \in {"y", "Y"}
        /\ \A j \in 1..Len(answer) : j # i => answer[j] \in Whitespace

\* C4 as stated: for an existing clone with uncommitted changes, add, commit
\* and push are issued iff the operator answered 'y', in that order and before
\* the pull; when the operator declines none of them is issued and the pull is
\* still attempted.
C4_AsStated ==
    (cur.pos >= 1 /\ cur.found = "clone" /\ cur.changes # <<>>) =>
        /\ Len(cur.prompt) = 1
        /\ IF AnsweredYes(cur.prompt[1])
           THEN Only(CurCmds, {"add", "commit", "push", "pull"})
                    \in {<<"add", "commit", "push">>, <<"add", "commit", "push", "pull">>}
           ELSE Only(CurCmds, {"add", "commit", "push", "pull"}) = <<"pull">>

\* C4, amended: as stated, except that after a declined commit the pull is
\* attempted if and only if the resolved branch name does not contain "fatal".
C4_CommitIffConfirmed ==
    (cur.pos >= 1 /\ cur.found = "clone" /\ cur.changes # <<>>) =>
        /\ Len(cur.prompt) = 1
        /\ IF AnsweredYes(cur.prompt[1])
           THEN Only(CurCmds, {"add", "commit", "push", "pull"})
                    \in {<<"add", "commit", "push">>, <<"add", "commit", "push", "pull">>}
           ELSE Only(CurCmds, {"add", "commit", "push", "pull"}) =
                    IF \E i \in 1..Len(cur.branch) : cur.branch[i] = "fatal"
                    THEN <<>> ELSE <<"pull">>

\* the operator confirms with " Y ": add, commit, push, then the pull
C4_Witness ==
    /\ cur.pos >= 1
    /\ cur.found = "clone"
    /\ cur.prompt = << <<" ", "Y", " ">> >>
    /\ CurCmds = <<"status", "add", "commit", "push", "rev-parse", "pull">>

\* the SSH probe's raw combined output holds one of the two markers
SshMarked ==
    \/ contains(SSH_AUTHENTICATED, ssh.stdout \o ssh.stderr)
    \/ contains(SSH_NO_SHELL, ssh.stdout \o ssh.stderr)

C6_ListingParsedInOrder ==
    Fetched =>
        /\ repos = [i \in 1..Len(Listed) |-> <<Listed[i], UrlOf(Listed[i])>>]
        /\ \A a, b \in 1..Len(cmds) : a < b => cmds[a][1] <= cmds[b][1]
        /\ {cmds[k][1] : k \in 1..Len(cmds)} = 0..cur.pos
        /\ cur.pos >= 1 => cur.name = Listed[cur.pos]
        /\ SummaryPrinted => cur.pos = Len(Listed)
        /\ Listed = <<>> =>
              /\ repos = <<>>
              /\ \A k \in 1..Len(cmds) :
                    cmds[k][2] \notin RepoCommands \cup {"git config"}
              /\ pc \in {"main", "exit"}
              /\ pc = "exit" => exitStatus = <<0>> /\ ~SummaryPrinted

\* a listing of several repositories, all processed
C6_Witness ==
    /\ Len(repos) >= 2
    /\ SummaryPrinted
    /\ exitStatus = <<0>>

\* the package at position k of ensure_dependencies' list was missing and
\* install_package has run for it
InstallRan(k) ==
    /\ Packages[k] \notin env.present
    /\ pkgIdx > k \/ (pkgIdx = k /\ pc = "exit")

\* the tools whose install command was issued for a package, in order
ToolsFor(package) ==
    LET own == SelectSeq(installs, LAMBDA r : r.package = package)
    IN  [i \in 1..Len(own) |-> own[i].tool]

OsType == detect_os(env.platform, env.bins)

\* C7 as stated: detect_os returns one of the seven categories, and in
\* install_package every category issues exactly one install command template.
C7_AsStated ==
    /\ OsType \in Categories
    /\ \A k \in 1..Len(Packages) : InstallRan(k) => Len(ToolsFor(Packages[k])) = 1

\* C7, amended: detect_os returns one of the seven categories; linux-apt,
\* linux-dnf, linux-yum and macos each map to exactly one install command
\* template (apt, dnf, yum, brew); windows maps to two (winget, then choco);
\* linux-unknown and unknown map to none: install_package exits with status 1.
C7_CategoriesAndTemplates ==
    /\ OsType \in Categories
    /\ \A k \in 1..Len(Packages) :
          InstallRan(k) =>
              CASE OsType = "linux-apt" -> ToolsFor(Packages[k]) = <<"apt">>
                [] OsType = "linux-dnf" -> ToolsFor(Packages[k]) = <<"dnf">>
                [] OsType = "linux-yum" -> ToolsFor(Packages[k]) = <<"yum">>
                [] OsType = "macos" -> ToolsFor(Packages[k]) = <<"brew">>
                [] OsType = "windows" ->
                       ToolsFor(Packages[k]) \in {<<"winget">>, <<"winget", "choco">>}
                [] OTHER -> /\ ToolsFor(Packages[k]) = <<>>
                            /\ pc = "exit"
                            /\ exitStatus = <<1>>

\* git is installed with yum
C7_Witness ==
    /\ OsType = "linux-yum"
    /\ InstallRan(1)
    /\ installs # <<>>

\* C8: on Windows winget runs first, and choco runs if and only if winget
\* failed.
C8_ChocoOnlyAsFallback ==
    \A k \in 1..Len(Packages) :
        (OsType = "windows" /\ InstallRan(k)) =>
            LET own == SelectSeq(installs, LAMBDA r : r.package = Packages[k]) IN
            /\ own # <<>>
            /\ own[1].tool = "winget"
            /\ (\E i \in 1..Len(own) : own[i].tool = "choco") <=> own[1].rc # 0

\* C9: every status, add, commit, push, branch-resolution and pull command
\* for repository R runs in the working directory <clone_dir>/R, which is
\* the process's working directory after the update, and every clone
\* targets the absolute path <clone_dir>/R.
C9_WorkingDirectory ==
    cur.pos >= 1 =>
        /\ \A i \in 1..Len(cur.log) :
              IF cur.log[i].cmd = "clone"
              THEN cur.log[i].args[2] = ClonePathOf(cur.name)
              ELSE cur.log[i].cwd = ClonePathOf(cur.name)
        /\ cur.found = "clone" => cwd = ClonePathOf(cur.name)

\* an update that follows the update of another repository
C9_Witness ==
    /\ cur.pos >= 2
    /\ cur.found = "clone"
    /\ CurIssued("pull")
    /\ \E k \in 1..Len(cmds) : cmds[k] = Cmd(cur.pos - 1, "pull")

GuardedCommands ==
    {"gh repo list", "clone", "status", "add", "commit", "push", "pull"}

\* the login status check and then the SSH probe were run before cmds[k]
ChecksRanBefore(k) ==
    \E i, j \in 1..(k - 1) :
        i < j /\ cmds[i] = Cmd(0, "gh auth status") /\ cmds[j] = Cmd(0, "ssh -T")

\* C10 as stated: no listing or git clone, status, add, commit, push or pull
\* command is issued unless the login status check reported success and the
\* SSH probe passed earlier in the run.
C10_AsStated ==
    \A k \in 1..Len(cmds) :
        cmds[k][2] \in GuardedCommands =>
            /\ ChecksRanBefore(k)
            /\ SshMarked
            /\ loginStatus = "ok"

\* C10, amended: no such command is issued unless the SSH probe passed
\* earlier in the run and the login status check ran before it and either
\* reported success or was followed by the interactive login, whose outcome
\* is not verified.
C10_ChecksBeforeSync ==
    \A k \in 1..Len(cmds) :
        cmds[k][2] \in GuardedCommands =>
            /\ ChecksRanBefore(k)
            /\ SshMarked
            /\ \/ loginStatus = "ok"
               \/ /\ loginStatus = "failed"
                  /\ \E i \in 1..(k - 1) : cmds[i] = Cmd(0, "gh auth login")

\* a repository is pulled in a run whose login status check failed
C10_Witness ==
    /\ loginStatus = "failed"
    /\ SshMarked
    /\ \E k \in 1..Len(cmds) : cmds[k][2] = "pull"

====
